---- MODULE Spec2Model ----
(***************************************************************************)
(* IPO candidate screening of stock_sight_advisor: IPOStockService         *)
(* (src/services.py) with its cache file, as driven by the candidate-stock *)
(* page (src/components.py).                                               *)
(*                                                                         *)
(* Representation.  A nullable number (None / NaN in the code) is the      *)
(* integer None = -1; every real price, capitalisation and time is >= 0.   *)
(* A market capitalisation is kept in units of 万 (1億 = 10000万), so that *)
(* oku + man / 10000 of the code stays an integer.  A quote's close is     *)
(* kept in tenths of a yen.  Text is a sequence of one-character strings;  *)
(* a character outside ASCII is written by a name: "oku" is 億, "man" is   *)
(* 万, "~" is the wave dash of a price range, "[" is the full-width        *)
(* opening parenthesis, and the three characters of 取締役 are the one     *)
(* character "director".  Time is counted in whole days.                   *)
(***************************************************************************)
EXTENDS Integers, Sequences, FiniteSets, TLC

VARIABLES
    pc,        \* position of the running get_promising_ipos, "idle" when none runs
    i,         \* get_jpx_ipo_list_multi_year: loop index over suffix_list
    records,   \* get_jpx_ipo_list_multi_year: the list `records`
    got,       \* per archive page requested in this run: what its table listed,
               \* and the pages that gave no table; the last response received
    df,        \* get_promising_ipos: the table `df`
    k,         \* get_current_prices: number of rows of df.index already visited
    col,       \* the column being computed by Series.apply (market cap, owner flag)
    result,    \* get_promising_ipos: the table `result`
    ret,       \* what the last call of get_promising_ipos handed to its caller
    saved,     \* how the save_cache call of this run ended ("none" before it)
    reqs,      \* requests issued by this run, per provider
    file,      \* content of CACHE_FILE_PATH
    file0,     \* content of CACHE_FILE_PATH when the running call started
    now,       \* datetime.now(), in days
    year,      \* datetime.now().year
    cached,    \* render_promising_stocks: (cached_df, cached_timestamp)
    valid,     \* render_promising_stocks: is_cache_valid
    warnings,  \* number of st.warning calls so far in this run / this page render
    years,     \* get_jpx_ipo_list_multi_year: the argument `years`
    log,       \* what this run has requested of each provider, in order
    session    \* st.session_state["promising_stocks_df"]

vars == <<pc, i, records, got, df, k, col, result, ret, saved, reqs, file, file0,
          now, year, cached, valid, warnings, years, log, session>>

----------------------------------------------------------------------------
(* Bounds of the model *)

MaxRows == 2        \* listing records one run may collect
MaxPairs == 1       \* row pairs in one archive page's table
MaxDays == 1        \* days the clock runs while the pipeline is explored
MaxTime == 9        \* days the clock runs while the cache ages
MaxRichRows == 1    \* listing records of a run over the rich world
MaxBody == 4        \* rows after the header in a table given to the row parser
MaxPriceLen == 4    \* characters of a price field given to the row parser
MaxCapLen == 4      \* characters of a cell given to the market-cap parser
MaxOfficerRows == 2 \* rows of a page given to the ownership classifier

(* Program constants *)

NumPages == 5            \* len(suffix_list)
YEARS == 5               \* get_jpx_ipo_list_multi_year(years=5)
YEAR_SPAN == 10          \* datetime.now().year - 10
YEAR_CHARS == 4          \* .str[:4]
HEADER_ROWS == 2         \* table.find_all("tr")[2:]
PRICE_CELL == 3          \* tds2[3]
TICKER_WIDTH == 4        \* .zfill(4)
OWNER_RATIO == 40        \* ratio >= 40
MIN_CAP == 30            \* 時価総額 >= 30
MAX_CAP == 700           \* 時価総額 <= 700
MAN_PER_OKU == 10000     \* oku + man / 10000
CACHE_EXPIRY_DAYS == 7

None == -1

----------------------------------------------------------------------------
(* Text and numbers *)

Min(a, b) == IF a < b THEN a ELSE b

Digits == {"0", "1", "2", "3", "4", "5", "6", "7", "8", "9"}

DigitVal(c) ==
    CASE c = "0" -> 0 [] c = "1" -> 1 [] c = "2" -> 2 [] c = "3" -> 3
      [] c = "4" -> 4 [] c = "5" -> 5 [] c = "6" -> 6 [] c = "7" -> 7
      [] c = "8" -> 8 [] c = "9" -> 9

\* s[:n]
Prefix(s, n) == SubSeq(s, 1, Min(n, Len(s)))

\* int(s) succeeds: over the alphabet of the model (digits, "/", other
\* characters) that is a non-empty string of digits.
IntParses(s) == Len(s) > 0 /\ \A j \in 1..Len(s) : s[j] \in Digits

RECURSIVE IntOf(_)
IntOf(s) ==
    IF s = <<>> THEN 0
    ELSE 10 * IntOf(SubSeq(s, 1, Len(s) - 1)) + DigitVal(s[Len(s)])

Contains(s, c) == \E j \in 1..Len(s) : s[j] = c

RECURSIVE LStrip(_)
LStrip(s) == IF s # <<>> /\ Head(s) = " " THEN LStrip(Tail(s)) ELSE s

RECURSIVE RStrip(_)
RStrip(s) ==
    IF s # <<>> /\ s[Len(s)] = " " THEN RStrip(SubSeq(s, 1, Len(s) - 1)) ELSE s

\* s.strip()
Strip(s) == RStrip(LStrip(s))

RECURSIVE Before(_, _)
\* s.split(c)[0]
Before(s, c) ==
    IF s = <<>> \/ Head(s) = c THEN <<>>
    ELSE <<Head(s)>> \o Before(Tail(s), c)

RECURSIVE AfterLast(_, _)
\* s.split(c)[-1]
AfterLast(s, c) ==
    IF s = <<>> \/ s[Len(s)] = c THEN <<>>
    ELSE Append(AfterLast(SubSeq(s, 1, Len(s) - 1), c), s[Len(s)])

\* s.replace(c, "")
Remove(s, c) == SelectSeq(s, LAMBDA x : x # c)

RECURSIVE DigitRun(_)
\* the longest run of digits s starts with: what \d+ or \d* takes
DigitRun(s) ==
    IF s # <<>> /\ Head(s) \in Digits THEN <<Head(s)>> \o DigitRun(Tail(s))
    ELSE <<>>

\* s[n:]
Drop(s, n) == SubSeq(s, n + 1, Len(s))

\* round(x) of Python 3 for x >= 0 given in tenths: half to even
Round(tenths) ==
    LET q == tenths \div 10
        r == tenths % 10
    IN  IF r < 5 THEN q
        ELSE IF r > 5 THEN q + 1
        ELSE IF q % 2 = 0 THEN q ELSE q + 1

----------------------------------------------------------------------------
(* Tables *)

DataFrame(columns, rows) == [kind |-> "DataFrame", columns |-> columns, rows |-> rows]

NoDF == [kind |-> "None", columns |-> <<>>, rows |-> <<>>]

DISPLAY_COLUMNS ==
    <<"code", "company", "listed_date", "current_price", "public_price", "market_cap">>

\* EmptyResult as pd.DataFrame(), without the columns
EmptyResultNoColumns == DataFrame(<<>>, <<>>)

\* the table returned when no listing was found
EmptyResult == DataFrame(DISPLAY_COLUMNS, <<>>)

----------------------------------------------------------------------------
(* 1. Listing Fetcher: get_jpx_ipo_list_multi_year *)

\* a <td>: its text, and whether the text stands inside an <a>
Cell(text) == [text |-> text, anchor |-> FALSE]
Linked(text) == [text |-> text, anchor |-> TRUE]

\* td.get_text(strip=True)
get_text(td) == Strip(td.text)

\* what one GET of an archive page can give; trs is table.find_all("tr")
PageError == [kind |-> "error", trs |-> <<>>]      \* requests.get raises
PageNoTable == [kind |-> "notable", trs |-> <<>>]  \* soup.find("table") is None
PageTable(trs) == [kind |-> "table", trs |-> trs]

\* lines 144-147 raise: tds1[0], tds1[2] or tds2[0] is out of range, or
\* tds1[1].find("a") is None
Throws(tds1, tds2) ==
    \/ Len(tds1) < 3
    \/ ~tds1[2].anchor
    \/ Len(tds2) < 1

\* PriceText with the lower bound of a range: split("～")[0]
PriceTextLower(tds2) ==
    LET price_text == IF Len(tds2) > PRICE_CELL THEN get_text(tds2[PRICE_CELL + 1]) ELSE <<>>
    IN  IF Contains(price_text, "~") THEN Before(price_text, "~")
        ELSE price_text

\* lines 149-151
PriceText(tds2) ==
    LET price_text == IF Len(tds2) > PRICE_CELL THEN get_text(tds2[PRICE_CELL + 1]) ELSE <<>>
    IN  IF Contains(price_text, "~") THEN AfterLast(price_text, "~")
        ELSE price_text

\* lines 153-157
PublicPrice(price_text) ==
    IF IntParses(Remove(price_text, ",")) THEN IntOf(Remove(price_text, ","))
    ELSE None

\* the body of the inner try: one record, or nothing when it raises
PairRecords(tds1, tds2) ==
    IF Throws(tds1, tds2) THEN <<>>
    ELSE <<[listed_date |-> Before(get_text(tds1[1]), "["),
            market |-> get_text(tds2[1]),
            code |-> get_text(tds1[3]),
            company |-> get_text(tds1[2]),
            public_price |-> PublicPrice(PriceText(tds2))]>>

RECURSIVE PairsFromStopping(_, _)
\* PairsFrom with the try around the while loop: a pair that throws ends it
PairsFromStopping(rows, idx) ==
    IF idx < Len(rows) - 1 /\ ~Throws(rows[idx + 1], rows[idx + 2])
    THEN PairRecords(rows[idx + 1], rows[idx + 2]) \o PairsFromStopping(rows, idx + 2)
    ELSE <<>>

RECURSIVE PairsFrom(_, _)
\* the while loop from idx on: while idx < len(rows) - 1: ...; idx += 2
PairsFrom(rows, idx) ==
    IF idx < Len(rows) - 1
    THEN PairRecords(rows[idx + 1], rows[idx + 2]) \o PairsFrom(rows, idx + 2)
    ELSE <<>>

\* rows = table.find_all("tr")[2:]; idx = 0; the while loop
PairsRecords(trs) == PairsFrom(Drop(trs, HEADER_ROWS), 0)

\* the records one page's response lists
PageRecords(resp) ==
    IF resp.kind = "table" THEN PairsRecords(resp.trs) ELSE <<>>

\* RecordsAfterPage with the try around the whole loop: a failing page
\* loses what the earlier pages gave
RecordsAfterPageLost(recs, resp) ==
    IF resp.kind = "error" THEN <<>>
    ELSE IF resp.kind = "notable" THEN recs
    ELSE recs \o PairsRecords(resp.trs)

\* `records` after the loop body for one page
RecordsAfterPage(recs, resp) ==
    IF resp.kind = "error" THEN recs           \* except Exception: continue
    ELSE IF resp.kind = "notable" THEN recs    \* if table is None: continue
    ELSE recs \o PairsRecords(resp.trs)

suffix_list ==
    <<"index.html", "00-archives-01.html", "00-archives-02.html",
      "00-archives-03.html", "00-archives-04.html">>

\* PagesToFetch without the min: every page, whatever `years`
PagesToFetchAll(n) == NumPages

\* number of pages one call requests: range(min(years, len(suffix_list)))
PagesToFetch(n) == Min(n, NumPages)

RECURSIVE SeqsUpTo(_, _)
\* all sequences over S of length 0..n
SeqsUpTo(S, n) ==
    IF n = 0 THEN {<<>>}
    ELSE LET shorter == SeqsUpTo(S, n - 1)
         IN  shorter \cup {Append(q, x) : q \in shorter, x \in S}

RECURSIVE Flatten(_)
Flatten(pairs) == IF pairs = <<>> THEN <<>> ELSE Head(pairs) \o Flatten(Tail(pairs))

\* the two header rows of the table of an archive page
HeaderRows == <<<<>>, <<>>>>

\* pages whose table holds the header and up to n of the given row pairs
Responses(Pairs, n) ==
    {PageError, PageNoTable}
        \cup {PageTable(HeaderRows \o Flatten(ps)) : ps \in SeqsUpTo(Pairs, n)}

NoRequests == [page |-> 0, price |-> 0, cap |-> 0, officer |-> 0, save |-> 0]

NoLog == [page |-> <<>>, price |-> <<>>, cap |-> <<>>, officer |-> <<>>]

\* no response yet
NoPage == [kind |-> "none", trs |-> <<>>]

NothingGot == [listed |-> [p \in 1..NumPages |-> <<>>], failed |-> {}, page |-> NoPage]

NoRet == [kind |-> "none", table |-> NoDF]

\* load_cache was not called
NotLoaded == [called |-> FALSE, df |-> NoDF, timestamp |-> None, warned |-> FALSE]

\* load_cache returned (None, None)
NoneNone == [called |-> TRUE, df |-> NoDF, timestamp |-> None, warned |-> FALSE]

\* get_promising_ipos is called (by a button of the candidate-stock page);
\* line 261 calls get_jpx_ipo_list_multi_year(years=5)
GetPromisingIpos ==
    /\ pc = "idle"
    /\ pc' = "fetch"
    /\ years' = YEARS
    /\ i' = 0
    /\ records' = <<>>
    /\ got' = NothingGot
    /\ reqs' = NoRequests
    /\ log' = NoLog
    /\ ret' = NoRet
    /\ saved' = "none"
    /\ file0' = file
    /\ UNCHANGED <<df, k, col, result, file, now, year, cached, valid, warnings,
                   session>>

\* get_jpx_ipo_list_multi_year(years) is called on its own
GetJpxIpoList(Years) ==
    /\ pc = "idle"
    /\ pc' = "list"
    /\ years' \in Years
    /\ i' = 0
    /\ records' = <<>>
    /\ got' = NothingGot
    /\ reqs' = NoRequests
    /\ log' = NoLog
    /\ ret' = NoRet
    /\ saved' = "none"
    /\ file0' = file
    /\ UNCHANGED <<df, k, col, result, file, now, year, cached, valid, warnings,
                   session>>

\* one iteration of the loop over suffix_list
FetchPage(Pages, limit) ==
    /\ pc \in {"fetch", "list"}
    /\ i < PagesToFetch(years)
    /\ \E resp \in Pages :
          /\ Len(records) + Len(PageRecords(resp)) <= limit
          /\ records' = RecordsAfterPage(records, resp)
          /\ got' = [listed |-> [got.listed EXCEPT ![i + 1] = PageRecords(resp)],
                     failed |-> IF resp.kind = "table" THEN got.failed
                                ELSE got.failed \cup {i + 1},
                     page |-> resp]
    /\ i' = i + 1
    /\ reqs' = [reqs EXCEPT !.page = @ + 1]
    /\ log' = [log EXCEPT !.page = Append(@, suffix_list[i + 1])]
    /\ UNCHANGED <<pc, df, k, col, result, ret, saved, file, file0, now, year,
                   cached, valid, warnings, years, session>>

\* pd.DataFrame(records)
FrameOf(recs) ==
    DataFrame(IF recs = <<>> THEN <<>>
              ELSE <<"listed_date", "market", "code", "company", "public_price">>,
              recs)

HasColumn(frame, name) == \E j \in 1..Len(frame.columns) : frame.columns[j] = name

\* if df.empty or "証券コード" not in df.columns
NoListings(frame) == frame.rows = <<>> \/ ~HasColumn(frame, "code")

\* line 263: no usable listing, the empty table is returned at once (the
\* locals of get_jpx_ipo_list_multi_year are gone when it has returned)
ShortCircuit ==
    /\ pc = "fetch"
    /\ i >= PagesToFetch(years)
    /\ NoListings(FrameOf(records))
    /\ pc' = "returned"
    /\ ret' = [kind |-> "table", table |-> EmptyResult]
    /\ df' = FrameOf(records)
    /\ i' = 0
    /\ records' = <<>>
    /\ got' = NothingGot
    /\ UNCHANGED <<k, col, result, saved, reqs, file, file0, now, year, cached, valid,
                   warnings, years, log, session>>

\* line 175 of a call made on its own: return pd.DataFrame(records)
ReturnList ==
    /\ pc = "list"
    /\ i >= PagesToFetch(years)
    /\ pc' = "listed"
    /\ ret' = [kind |-> "table", table |-> FrameOf(records)]
    /\ UNCHANGED <<i, records, got, df, k, col, result, saved, reqs, file, file0, now,
                   year, cached, valid, warnings, years, log, session>>

----------------------------------------------------------------------------
(* The stages of get_promising_ipos, lines 275-321 *)

\* the statement that follows a stage
StageAfter(stage) ==
    CASE stage = "prices" -> "caps"
      [] stage = "caps" -> "officers"
      [] stage = "officers" -> "filter"

----------------------------------------------------------------------------
(* 2. Price Enricher: get_current_prices *)

QuoteError == [kind |-> "error", close |-> None]   \* yfinance raises
QuoteEmpty == [kind |-> "empty", close |-> None]   \* data.empty
QuoteClose(tenths) == [kind |-> "close", close |-> tenths]

Quotes(Closes) == {QuoteError, QuoteEmpty} \cup {QuoteClose(c) : c \in Closes}

\* the value left in 現在株価 for one row
PriceOf(quote) ==
    IF quote.kind = "close" THEN Round(quote.close) ELSE None

RECURSIVE zfill(_, _)
\* s.zfill(width)
zfill(s, width) == IF Len(s) >= width THEN s ELSE zfill(<<"0">> \o s, width)

\* line 185: the symbol asked of the quote provider
Ticker(code) == zfill(code, TICKER_WIDTH) \o <<".", "T">>

\* RowsAfterQuote with the try around the whole loop: a lookup that raises
\* ends the loop and no row keeps a price
RowsAfterQuoteAbort(rows, n, quote) ==
    IF quote.kind = "error"
    THEN [r \in 1..Len(rows) |-> [rows[r] EXCEPT !.current_price = None]]
    ELSE [rows EXCEPT ![n].current_price = PriceOf(quote)]

\* the rows of df after the loop body for row n
RowsAfterQuote(rows, n, quote) ==
    [rows EXCEPT ![n].current_price = PriceOf(quote)]

\* get_current_prices is entered: df = df.copy(); df["現在株価"] = None.
\* `records` stays as the rows of the caller's table, `col` will hold what
\* the quote provider answered for each row.
BeginPrices ==
    /\ pc = "fetch"
    /\ i >= PagesToFetch(years)
    /\ ~NoListings(FrameOf(records))
    /\ pc' = "prices"
    /\ k' = 0
    /\ col' = <<>>
    /\ df' = DataFrame(
                Append(FrameOf(records).columns, "current_price"),
                [r \in 1..Len(records) |->
                    [listed_date |-> records[r].listed_date,
                     market |-> records[r].market,
                     code |-> records[r].code,
                     company |-> records[r].company,
                     public_price |-> records[r].public_price,
                     current_price |-> None,
                     market_cap |-> None,
                     owner |-> FALSE]])
    /\ i' = 0
    /\ got' = NothingGot
    /\ UNCHANGED <<records, result, ret, saved, reqs, file, file0, now, year, cached,
                   valid, warnings, years, log, session>>

\* one iteration of `for i in df.index`
GetCurrentPrice(Closes) ==
    /\ pc = "prices"
    /\ k < Len(df.rows)
    /\ \E quote \in Quotes(Closes) :
          /\ df' = [df EXCEPT !.rows = RowsAfterQuote(df.rows, k + 1, quote)]
          /\ col' = Append(col, quote)
    /\ k' = k + 1
    /\ reqs' = [reqs EXCEPT !.price = @ + 1]
    /\ log' = [log EXCEPT !.price = Append(@, Ticker(df.rows[k + 1].code))]
    /\ UNCHANGED <<pc, i, records, got, result, ret, saved, file, file0, now, year,
                   cached, valid, warnings, years, session>>

\* line 195: return df; the caller's df becomes the copy
EndPrices ==
    /\ pc = "prices"
    /\ k = Len(df.rows)
    /\ pc' = StageAfter("prices")
    /\ col' = <<>>
    /\ records' = <<>>
    /\ UNCHANGED <<i, got, df, k, result, ret, saved, reqs, file, file0, now, year,
                   cached, valid, warnings, years, log, session>>

----------------------------------------------------------------------------
(* 3. Market-Cap Enricher and 4. Ownership Classifier, applied per row *)

\* what one GET of a provider page can give; trs holds the rows of the
\* selected table, each a sequence of <td>
ProviderError == [kind |-> "error", trs |-> <<>>]   \* requests.get raises
ProviderPage(trs) == [kind |-> "page", trs |-> trs]

\* soup.select("table#tbc tbody tr td"): the cells in document order
SelectTds(page) == Flatten(page.trs)

\* re.match(r"(\d+)(億)(\d+)?(万)?", text) is not None
CapMatches(text) ==
    LET oku == DigitRun(text)
    IN  /\ oku # <<>>
        /\ Len(text) > Len(oku)
        /\ text[Len(oku) + 1] = "oku"

\* CapValue without group 3: the 万 remainder is dropped
CapValueOkuOnly(text) == IntOf(DigitRun(text)) * MAN_PER_OKU

\* oku + man / 10000 of a matching text, in 万
CapValue(text) ==
    LET oku == DigitRun(text)
        man == DigitRun(Drop(text, Len(oku) + 1))    \* match.group(3)
    IN  IntOf(oku) * MAN_PER_OKU + (IF man # <<>> THEN IntOf(man) ELSE 0)

RECURSIVE FirstCap(_)
\* the loop over tds: the first cell whose text matches answers
FirstCap(tds) ==
    IF tds = <<>> THEN None
    ELSE IF CapMatches(get_text(Head(tds))) THEN CapValue(get_text(Head(tds)))
    ELSE FirstCap(Tail(tds))

\* get_market_cap: a value in 万, or None (no matching cell, request failed)
get_market_cap(page) ==
    IF page.kind = "error" THEN None ELSE FirstCap(SelectTds(page))

\* df["時価総額"] = df["証券コード"].apply(self.get_market_cap), one call per step
GetMarketCap(Pages) ==
    /\ pc = "caps"
    /\ \E page \in Pages :
          LET column == Append(col, get_market_cap(page))
          IN  /\ got' = [got EXCEPT !.page = page]
              /\ IF Len(column) = Len(df.rows)
                 THEN /\ df' = DataFrame(Append(df.columns, "market_cap"),
                                  [r \in 1..Len(df.rows) |->
                                      [df.rows[r] EXCEPT !.market_cap = column[r]]])
                      /\ col' = <<>>
                      /\ pc' = StageAfter("caps")
                 ELSE /\ col' = column
                      /\ UNCHANGED <<df, pc>>
    /\ reqs' = [reqs EXCEPT !.cap = @ + 1]
    /\ log' = [log EXCEPT !.cap = Append(@, df.rows[Len(col) + 1].code)]
    /\ UNCHANGED <<i, records, k, result, ret, saved, file, file0, now, year, cached,
                   valid, warnings, years, session>>

RECURSIVE RatioRun(_)
\* the longest run of digits and dots s starts with: what [\d.]+ takes
RatioRun(s) ==
    IF s # <<>> /\ (Head(s) \in Digits \/ Head(s) = ".")
    THEN <<Head(s)>> \o RatioRun(Tail(s))
    ELSE <<>>

\* \(([\d.]+)%\) matches at position p of s
RatioAt(s, p) ==
    LET run == RatioRun(Drop(s, p))
    IN  /\ s[p] = "("
        /\ run # <<>>
        /\ Len(s) >= p + Len(run) + 2
        /\ s[p + Len(run) + 1] = "%"
        /\ s[p + Len(run) + 2] = ")"

\* re.search(r"\(([\d.]+)%\)", s) is not None
HasRatio(s) == \E p \in 1..Len(s) : RatioAt(s, p)

\* match.group(1) of the leftmost match
RatioText(s) ==
    LET p == CHOOSE q \in 1..Len(s) :
                 RatioAt(s, q) /\ \A o \in 1..(q - 1) : ~RatioAt(s, o)
    IN  RatioRun(Drop(s, p))

\* float(g) succeeds on a text of digits and dots: one dot at most, a digit
FloatParses(g) ==
    /\ Len(SelectSeq(g, LAMBDA c : c = ".")) <= 1
    /\ \E j \in 1..Len(g) : g[j] \in Digits

\* float(g) >= n for a whole n: the digits before the dot decide
FloatAtLeast(g, n) == IntOf(Before(g, ".")) >= n

\* one row of the loop of is_owner_ceo: "raises", "true", or "next"
OfficerRow(tds) ==
    IF Len(tds) < 2 THEN "next"
    ELSE LET role_text == get_text(tds[2])
         IN  IF HasRatio(role_text) /\ ~FloatParses(RatioText(role_text))
             THEN "raises"                      \* float() raises ValueError
             ELSE IF /\ Contains(role_text, "director")
                     /\ HasRatio(role_text)     \* else ratio = 0.0
                     /\ FloatAtLeast(RatioText(role_text), OWNER_RATIO)
                  THEN "true"
                  ELSE "next"

RECURSIVE ScanOfficers(_)
\* the loop over soup.find_all("tr")
ScanOfficers(trs) ==
    IF trs = <<>> THEN "false"
    ELSE IF OfficerRow(Head(trs)) = "next" THEN ScanOfficers(Tail(trs))
    ELSE OfficerRow(Head(trs))

\* is_owner_ceo: except Exception: return False
is_owner_ceo(page) ==
    IF page.kind = "error" THEN FALSE ELSE ScanOfficers(page.trs) = "true"

\* df["オーナー創業社長"] = df["証券コード"].apply(self.is_owner_ceo), one call per step
IsOwnerCeo(Pages) ==
    /\ pc = "officers"
    /\ \E page \in Pages :
          LET column == Append(col, is_owner_ceo(page))
          IN  /\ got' = [got EXCEPT !.page = page]
              /\ IF Len(column) = Len(df.rows)
                 THEN /\ df' = DataFrame(Append(df.columns, "owner"),
                                  [r \in 1..Len(df.rows) |->
                                      [df.rows[r] EXCEPT !.owner = column[r]]])
                      /\ col' = <<>>
                      /\ pc' = StageAfter("officers")
                 ELSE /\ col' = column
                      /\ UNCHANGED <<df, pc>>
    /\ reqs' = [reqs EXCEPT !.officer = @ + 1]
    /\ log' = [log EXCEPT !.officer = Append(@, df.rows[Len(col) + 1].code)]
    /\ UNCHANGED <<i, records, k, result, ret, saved, file, file0, now, year, cached,
                   valid, warnings, years, session>>

----------------------------------------------------------------------------
(* 5. Screening Filter: get_promising_ipos, lines 287-321 *)

\* .str[:4].astype(int) succeeds on this row
YearParses(row) == IntParses(Prefix(row.listed_date, YEAR_CHARS))

\* 上場年
ListedYear(row) == IntOf(Prefix(row.listed_date, YEAR_CHARS))

\* Screen with 現在株価 <= 公募価格 in place of <
ScreenNotStrict(rows, year_limit) ==
    LET f1 == SelectSeq(rows, LAMBDA r : ListedYear(r) >= year_limit)
        f2 == SelectSeq(f1, LAMBDA r : r.public_price # None)
        f3 == SelectSeq(f2, LAMBDA r : r.current_price # None)
        f4 == SelectSeq(f3, LAMBDA r : r.current_price <= r.public_price)
        f5 == SelectSeq(f4, LAMBDA r : r.market_cap # None)
        f6 == SelectSeq(f5, LAMBDA r : /\ r.market_cap >= MIN_CAP * MAN_PER_OKU
                                       /\ r.market_cap <= MAX_CAP * MAN_PER_OKU)
        f7 == SelectSeq(f6, LAMBDA r : r.owner = TRUE)
    IN  f7

\* Screen that leaves 時価総額 in 億, rounded down, in the rows it keeps
ScreenRescaling(rows, year_limit) ==
    LET f1 == SelectSeq(rows, LAMBDA r : ListedYear(r) >= year_limit)
        f2 == SelectSeq(f1, LAMBDA r : r.public_price # None)
        f3 == SelectSeq(f2, LAMBDA r : r.current_price # None)
        f4 == SelectSeq(f3, LAMBDA r : r.current_price < r.public_price)
        f5 == SelectSeq(f4, LAMBDA r : r.market_cap # None)
        f6 == SelectSeq(f5, LAMBDA r : /\ r.market_cap >= MIN_CAP * MAN_PER_OKU
                                       /\ r.market_cap <= MAX_CAP * MAN_PER_OKU)
        f7 == SelectSeq(f6, LAMBDA r : r.owner = TRUE)
    IN  [r \in 1..Len(f7) |->
            [f7[r] EXCEPT !.market_cap = f7[r].market_cap \div MAN_PER_OKU]]

\* the seven masks, applied one after the other as the code does
Screen(rows, year_limit) ==
    LET f1 == SelectSeq(rows, LAMBDA r : ListedYear(r) >= year_limit)
        f2 == SelectSeq(f1, LAMBDA r : r.public_price # None)
        f3 == SelectSeq(f2, LAMBDA r : r.current_price # None)
        f4 == SelectSeq(f3, LAMBDA r : r.current_price < r.public_price)
        f5 == SelectSeq(f4, LAMBDA r : r.market_cap # None)
        f6 == SelectSeq(f5, LAMBDA r : /\ r.market_cap >= MIN_CAP * MAN_PER_OKU
                                       /\ r.market_cap <= MAX_CAP * MAN_PER_OKU)
        f7 == SelectSeq(f6, LAMBDA r : r.owner = TRUE)
    IN  f7

\* one row of df_filtered[[...six columns...]]
DisplayRow(row) ==
    [code |-> row.code, company |-> row.company, listed_date |-> row.listed_date,
     current_price |-> row.current_price, public_price |-> row.public_price,
     market_cap |-> row.market_cap]

\* the projection to the display columns, re-indexed
Project(rows) ==
    DataFrame(DISPLAY_COLUMNS, [r \in 1..Len(rows) |-> DisplayRow(rows[r])])

Raised == [kind |-> "raised", table |-> NoDF]

\* lines 288-321: the year column (which raises ValueError when a date does
\* not start with a number), the filter and the projection; the responses
\* of the providers are gone
ScreenStep ==
    /\ pc = "filter"
    /\ IF \A r \in 1..Len(df.rows) : YearParses(df.rows[r])
       THEN /\ result' = Project(Screen(df.rows, year - YEAR_SPAN))
            /\ pc' = "save"
            /\ ret' = ret
       ELSE /\ pc' = "raised"
            /\ ret' = Raised
            /\ result' = result
    /\ got' = NothingGot
    /\ UNCHANGED <<i, records, df, k, col, saved, reqs, file, file0, now, year,
                   cached, valid, warnings, years, log, session>>

----------------------------------------------------------------------------
(* 6. Cache Store: save_cache, load_cache, is_cache_valid *)

\* the file holds no pickle of a mapping
Blob(kind) == [kind |-> kind, keys |-> {}, data |-> NoDF, timestamp |-> None]

Absent == Blob("absent")

\* the file holds the pickle of a dict with these keys
Mapping(keys, data, timestamp) ==
    [kind |-> "mapping", keys |-> keys,
     data |-> IF "data" \in keys THEN data ELSE NoDF,
     timestamp |-> IF "timestamp" \in keys THEN timestamp ELSE None]

\* {"data": df, "timestamp": datetime.now()}
Entry(data, timestamp) == Mapping({"data", "timestamp"}, data, timestamp)

\* how one save_cache call can end: written, open() raises, pickle.dump raises
SaveOutcomes == {"ok", "open_fails", "dump_fails"}

\* FilesAfterSave with the file opened "ab": pickle.load reads the first
\* pickle of the file, the one an earlier save left
FilesAfterSaveAppend(f, table, t, outcome) ==
    CASE outcome = "ok" ->
            IF f.kind \in {"absent", "empty"} THEN {Entry(table, t)} ELSE {f}
      [] outcome = "open_fails" -> {f}
      [] outcome = "dump_fails" -> {f}

\* the file after save_cache; open(path, "wb") truncates before dump writes
FilesAfterSave(f, table, t, outcome) ==
    CASE outcome = "ok" -> {Entry(table, t)}
      [] outcome = "open_fails" -> {f}
      [] outcome = "dump_fails" -> {Blob("empty"), Blob("truncated")}

\* AfterSave without the except clause of save_cache
AfterSaveUncaught(outcome) == IF outcome = "ok" THEN "returned" ELSE "raised"

\* where get_promising_ipos is after save_cache ends: except Exception -> warning
AfterSave(outcome) == "returned"

\* self.save_cache(result); return result
SaveCache ==
    /\ pc = "save"
    /\ \E outcome \in SaveOutcomes :
          /\ file' \in FilesAfterSave(file, result, now, outcome)
          /\ saved' = outcome
          /\ warnings' = IF outcome = "ok" THEN warnings ELSE warnings + 1
          /\ pc' = AfterSave(outcome)
          /\ ret' = IF AfterSave(outcome) = "returned"
                    THEN [kind |-> "table", table |-> result]
                    ELSE Raised
    /\ reqs' = [reqs EXCEPT !.save = @ + 1]
    /\ UNCHANGED <<i, records, got, df, k, col, result, file0, now, year,
                   cached, valid, years, log, session>>

\* pickle.load(f) succeeds
Unpickles(f) == f.kind \in {"mapping", "object"}

\* load_cache: (data, timestamp), and whether st.warning was called
load_cache(f) ==
    IF f.kind = "absent" THEN NoneNone                        \* not os.path.exists
    ELSE IF ~Unpickles(f) THEN [NoneNone EXCEPT !.warned = TRUE]
    ELSE IF f.kind # "mapping" THEN [NoneNone EXCEPT !.warned = TRUE]  \* no .get
    ELSE [called |-> TRUE,
          df |-> IF "data" \in f.keys THEN f.data ELSE NoDF,
          timestamp |-> IF "timestamp" \in f.keys THEN f.timestamp ELSE None,
          warned |-> FALSE]

\* is_cache_valid with <= in place of <
is_cache_valid_inclusive(timestamp, t) ==
    IF timestamp = None THEN FALSE
    ELSE t <= timestamp + CACHE_EXPIRY_DAYS

is_cache_valid(timestamp, t) ==
    IF timestamp = None THEN FALSE
    ELSE t < timestamp + CACHE_EXPIRY_DAYS

\* CheckCache that drops an expired entry
CheckCacheEvicting ==
    /\ pc = "idle"
    /\ cached' = load_cache(file)
    /\ valid' = is_cache_valid(load_cache(file).timestamp, now)
    /\ warnings' = IF load_cache(file).warned THEN 1 ELSE 0
    /\ file' = IF load_cache(file).timestamp # None
                  /\ ~is_cache_valid(load_cache(file).timestamp, now)
               THEN Absent ELSE file
    /\ UNCHANGED <<pc, i, records, got, df, k, col, result, ret, saved, reqs, file0,
                   now, year, years, log, session>>

\* render_promising_stocks, lines 184-185
CheckCache ==
    /\ pc = "idle"
    /\ cached' = load_cache(file)
    /\ valid' = is_cache_valid(load_cache(file).timestamp, now)
    /\ warnings' = IF load_cache(file).warned THEN 1 ELSE 0
    /\ UNCHANGED <<pc, i, records, got, df, k, col, result, ret, saved, reqs, file, file0,
                   now, year, years, log, session>>

\* render_promising_stocks with the use_cache button pressed, lines 184-217:
\* the button is there when a table with rows was loaded, valid or not
UseCache ==
    /\ pc = "idle"
    /\ load_cache(file).df # NoDF
    /\ load_cache(file).df.rows # <<>>
    /\ load_cache(file).timestamp # None        \* else strftime raises
    /\ cached' = load_cache(file)
    /\ valid' = is_cache_valid(load_cache(file).timestamp, now)
    /\ warnings' = 0
    /\ session' = load_cache(file).df
    /\ UNCHANGED <<pc, i, records, got, df, k, col, result, ret, saved, reqs, file, file0,
                   now, year, years, log>>

----------------------------------------------------------------------------
(* The caller and the clock *)

\* a call ends: its locals are gone
CallEnds ==
    /\ pc' = "idle"
    /\ i' = 0
    /\ records' = <<>>
    /\ got' = NothingGot
    /\ df' = NoDF
    /\ k' = 0
    /\ col' = <<>>
    /\ result' = NoDF
    /\ ret' = NoRet
    /\ saved' = "none"
    /\ reqs' = NoRequests
    /\ warnings' = 0
    /\ cached' = NotLoaded
    /\ valid' = FALSE
    /\ file0' = file
    /\ years' = 0
    /\ log' = NoLog
    /\ UNCHANGED <<file, now, year>>

\* the caller has taken what the call gave
Finish ==
    /\ pc \in {"returned", "raised", "listed"}
    /\ CallEnds
    /\ session' = session

\* the candidate-stock page has taken the table get_promising_ipos returned
\* and keeps it for display (components.py, lines 219-232)
ShowFetched ==
    /\ pc = "returned"
    /\ CallEnds
    /\ session' = ret.table

\* a day passes between two renders of the page; the browser session of
\* the day before, and with it st.session_state, is over
Tick(limit) ==
    /\ pc = "idle"
    /\ now < limit
    /\ now' = now + 1
    /\ session' = NoDF
    /\ cached' = NotLoaded
    /\ valid' = FALSE
    /\ warnings' = 0
    /\ UNCHANGED <<pc, i, records, got, df, k, col, result, ret, saved, reqs, file, file0,
                   year, years, log>>

----------------------------------------------------------------------------
(* Inputs *)

Date2023 == <<"2", "0", "2", "3", "/", "0", "4", "/", "0", "1">>
Date2016 == <<"2", "0", "1", "6", "/", "1", "2", "/", "2", "0">>
Date2015 == <<"2", "0", "1", "5", "/", "1", "2", "/", "2", "0">>
DateShort == <<"2", "0", "2">>
DateUndecided == <<"T", "B", "D">>

Code7203 == <<"7", "2", "0", "3">>
Code9999 == <<"9", "9", "9", "9">>
Growth == <<"G", "r", "o", "w", "t", "h">>
Co == <<"C", "o">>
Price1000 == <<"1", ",", "0", "0", "0">>
PriceUndecided == <<"-">>

\* the two rows of one listing: date, linked company name, code; market
\* segment, two further cells, price field
RowPair(date, code, price) ==
    <<<<Cell(date), Linked(Co), Cell(code)>>,
      <<Cell(Growth), Cell(<<>>), Cell(<<>>), Cell(price)>>>>

\* a pair of table rows whose field extraction raises: no code cell
BrokenPair == <<<<Cell(Date2023), Linked(Co)>>, <<Cell(Growth)>>>>

CurrentYears == {2026}

\* a table an earlier session of the program left in the cache
OldTable ==
    Project(<<[listed_date |-> Date2016, market |-> Growth, code |-> Code9999,
               company |-> Co, public_price |-> 500, current_price |-> 400,
               market_cap |-> 50 * MAN_PER_OKU, owner |-> TRUE]>>)

\* what CACHE_FILE_PATH may hold when the program starts
InitialFiles ==
    {Absent, Blob("empty"), Blob("truncated"), Blob("corrupt"), Blob("object")}
        \cup {Mapping(keys, OldTable, 0) : keys \in SUBSET {"data", "timestamp"}}

InitWith(Files) ==
    /\ pc = "idle"
    /\ i = 0
    /\ records = <<>>
    /\ got = NothingGot
    /\ df = NoDF
    /\ k = 0
    /\ col = <<>>
    /\ result = NoDF
    /\ ret = NoRet
    /\ saved = "none"
    /\ reqs = NoRequests
    /\ file \in Files
    /\ file0 = file
    /\ now = 0
    /\ year \in CurrentYears
    /\ cached = NotLoaded
    /\ valid = FALSE
    /\ warnings = 0
    /\ years = 0
    /\ log = NoLog
    /\ session = NoDF

\* a capitalisation page of one cell
CapPageOf(text) == ProviderPage(<<<<Cell(text)>>>>)

\* an officer page of one row: name, role
OfficerPageOf(role_text) == ProviderPage(<<<<Cell(Co), Cell(role_text)>>>>)

Cap100 == <<"1", "0", "0", "oku">>
Director45 == <<"director", "(", "4", "5", ".", "0", "%", ")">>

----------------------------------------------------------------------------
(* The pipeline with its cache, over a small world *)

SmallPairs == {RowPair(d, Code7203, Price1000) : d \in {Date2023, DateUndecided}}
\* an archive page fails, has no table, or lists up to MaxPairs companies
SmallPages == Responses(SmallPairs, MaxPairs)
SmallCloses == {8000}
SmallCaps == {ProviderError, CapPageOf(Cap100)}
SmallOfficers == {ProviderError, OfficerPageOf(Director45)}

Init == InitWith(InitialFiles)

Next ==
    \/ GetPromisingIpos
    \/ FetchPage(SmallPages, MaxRows)
    \/ ShortCircuit
    \/ BeginPrices
    \/ GetCurrentPrice(SmallCloses)
    \/ EndPrices
    \/ GetMarketCap(SmallCaps)
    \/ IsOwnerCeo(SmallOfficers)
    \/ ScreenStep
    \/ SaveCache
    \/ Finish
    \/ CheckCache
    \/ Tick(MaxDays)

Spec == Init /\ [][Next]_vars

----------------------------------------------------------------------------
(* The ageing cache: one listing at most, the clock runs past the expiry *)

TinyPairs == {RowPair(Date2023, Code7203, Price1000)}

\* an archive page fails or lists one company
TinyPages == {PageError} \cup {PageTable(HeaderRows \o pair) : pair \in TinyPairs}

\* the capitalisation provider answers
TinyCaps == {CapPageOf(Cap100)}

NextCache ==
    \/ GetPromisingIpos
    \/ FetchPage(TinyPages, MaxRichRows)
    \/ ShortCircuit
    \/ BeginPrices
    \/ GetCurrentPrice(SmallCloses)
    \/ EndPrices
    \/ GetMarketCap(TinyCaps)
    \/ IsOwnerCeo(SmallOfficers)
    \/ ScreenStep
    \/ SaveCache
    \/ ShowFetched
    \/ CheckCache
    \/ UseCache
    \/ Tick(MaxTime)

SpecCache == Init /\ [][NextCache]_vars

----------------------------------------------------------------------------
(* The screening filter over a rich world: one run of get_promising_ipos *)

RichPairs ==
    {RowPair(d, Code7203, p) :
        d \in {Date2023, Date2016, Date2015, DateShort},
        p \in {PriceUndecided, Price1000}}
RichPages == Responses(RichPairs, MaxPairs)
RichCloses == {8000, 9994, 9995, 12000}
RichCaps ==
    {ProviderError}
        \cup {CapPageOf(t) :
                 t \in {<<"3", "0", "oku">>, Cap100, <<"7", "0", "0", "oku">>,
                        <<"8", "0", "0", "oku">>,
                        <<"2", "9", "oku", "9", "9", "9", "9", "man">>,
                        <<"7", "0", "0", "oku", "1", "man">>}}

InitFilter == InitWith({Absent})

NextFilter ==
    \/ GetPromisingIpos
    \/ FetchPage(RichPages, MaxRichRows)
    \/ ShortCircuit
    \/ BeginPrices
    \/ GetCurrentPrice(RichCloses)
    \/ EndPrices
    \/ GetMarketCap(RichCaps)
    \/ IsOwnerCeo(SmallOfficers)
    \/ ScreenStep
    \/ SaveCache

SpecFilter == InitFilter /\ [][NextFilter]_vars

----------------------------------------------------------------------------
(* The row parser of the listing fetcher: one call of                      *)
(* get_jpx_ipo_list_multi_year over tables of arbitrary rows               *)

DateAnnotated == Date2023 \o <<"[", "S", "a", "t", ")">>

\* the <tr> a table may hold after its header: first rows of a listing
\* (plain, with an empty code cell, without the link, without the code
\* cell) and second rows (price range, undecided price, no price cell, no
\* cell at all)
ParseTrs ==
    {<<Cell(DateAnnotated), Linked(Co), Cell(Code7203)>>,
     <<Cell(Date2023), Linked(Co), Cell(<<" ">>)>>,
     <<Cell(Date2023), Cell(Co), Cell(Code7203)>>,
     <<Cell(Date2023), Linked(Co)>>,
     <<Cell(Growth), Cell(<<>>), Cell(<<>>), Cell(<<"9", "0", "0", "~", "1", ",", "0", "0", "0">>)>>,
     <<Cell(Growth), Cell(<<>>), Cell(<<>>), Cell(PriceUndecided)>>,
     <<Cell(<<>>), Cell(<<>>), Cell(<<>>)>>,
     <<>>}

\* tables of a header and up to MaxBody rows, and tables shorter than a header
RowTables ==
    {PageTable(HeaderRows \o body) : body \in SeqsUpTo(ParseTrs, MaxBody)}
        \cup {PageTable(trs) : trs \in SeqsUpTo({<<>>}, HEADER_ROWS)}

PriceAlphabet == {"1", "2", ",", "~", "-"}

\* tables of one listing whose price field is any text of up to MaxPriceLen
\* characters
PriceTables ==
    {PageTable(HeaderRows \o RowPair(Date2023, Code7203, text)) :
        text \in SeqsUpTo(PriceAlphabet, MaxPriceLen)}

\* what the one page fetched can give
ParsePages == {PageError, PageNoTable} \cup RowTables \cup PriceTables

ParseYears == {1}

InitParse == InitWith({Absent})

NextParse ==
    \/ GetJpxIpoList(ParseYears)
    \/ FetchPage(ParsePages, MaxBody)
    \/ ReturnList

SpecParse == InitParse /\ [][NextParse]_vars

----------------------------------------------------------------------------
(* The market-cap parser: one run of get_promising_ipos over arbitrary     *)
(* capitalisation pages                                                    *)

CapAlphabet == {"1", "oku", "man"}

\* cell texts of a page of several cells: no match, 1億, 1億2万, 2億円
CapCells ==
    {<<"man">>, <<"1", "oku">>, <<"1", "oku", "2", "man">>, <<" ", "2", "oku", "en">>}

\* the request fails, no cell, one cell of any text of up to MaxCapLen
\* characters or of one of the texts above, two cells in one row or in two
\* rows
CapPages ==
    {ProviderError, ProviderPage(<<>>)}
        \cup {CapPageOf(t) : t \in SeqsUpTo(CapAlphabet, MaxCapLen) \cup CapCells}
        \cup {ProviderPage(<<<<Cell(a), Cell(b)>>>>) : a, b \in CapCells}
        \cup {ProviderPage(<<<<Cell(a)>>, <<Cell(b)>>>>) : a, b \in CapCells}

NextCap ==
    \/ GetPromisingIpos
    \/ FetchPage(TinyPages, MaxRichRows)
    \/ ShortCircuit
    \/ BeginPrices
    \/ GetCurrentPrice(SmallCloses)
    \/ EndPrices
    \/ GetMarketCap(CapPages)
    \/ IsOwnerCeo(SmallOfficers)
    \/ ScreenStep
    \/ SaveCache

SpecCap == InitFilter /\ [][NextCap]_vars

----------------------------------------------------------------------------
(* The ownership classifier: one run of get_promising_ipos over arbitrary  *)
(* officer pages                                                           *)

Director40 == <<"director", "(", "4", "0", ".", "0", "%", ")">>
Director39 == <<"director", "(", "3", "9", ".", "9", "%", ")">>
DirectorPlain == <<"director">>
Holder45 == <<"(", "4", "5", ".", "0", "%", ")">>
DirectorMalformed == <<"director", "(", "1", ".", "2", ".", "3", "%", ")">>

\* the <tr> of an officer page: name and role, or the role alone
OfficerTrs ==
    {<<Cell(Co), Cell(role)>> :
        role \in {Director45, Director40, Director39, DirectorPlain, Holder45,
                  DirectorMalformed}}
        \cup {<<Cell(Director45)>>}

OfficerPages ==
    {ProviderError} \cup {ProviderPage(trs) : trs \in SeqsUpTo(OfficerTrs, MaxOfficerRows)}

NextOfficer ==
    \/ GetPromisingIpos
    \/ FetchPage(TinyPages, MaxRichRows)
    \/ ShortCircuit
    \/ BeginPrices
    \/ GetCurrentPrice(SmallCloses)
    \/ EndPrices
    \/ GetMarketCap(SmallCaps)
    \/ IsOwnerCeo(OfficerPages)
    \/ ScreenStep
    \/ SaveCache

SpecOfficer == InitFilter /\ [][NextOfficer]_vars

----------------------------------------------------------------------------
(* The requests of one call: get_jpx_ipo_list_multi_year with any `years`, *)
(* or get_promising_ipos                                                   *)

YearArgs == {-1, 0, 1, 3, 5, 6}

FetchPairs == {BrokenPair, RowPair(Date2023, Code7203, Price1000)}
FetchPages == Responses(FetchPairs, MaxPairs)

NextFetch ==
    \/ GetPromisingIpos
    \/ GetJpxIpoList(YearArgs)
    \/ FetchPage(FetchPages, MaxRows)
    \/ ReturnList
    \/ ShortCircuit
    \/ BeginPrices
    \/ GetCurrentPrice(SmallCloses)
    \/ EndPrices
    \/ GetMarketCap(SmallCaps)
    \/ IsOwnerCeo(SmallOfficers)
    \/ ScreenStep
    \/ SaveCache

SpecFetch == InitFilter /\ [][NextFetch]_vars

----------------------------------------------------------------------------
(* Claims *)

\* the seven predicates of the screening filter, on one enriched row
Passes(row, current_year) ==
    /\ ListedYear(row) >= current_year - 10
    /\ row.public_price # None
    /\ row.current_price # None
    /\ row.current_price < row.public_price
    /\ row.market_cap # None
    /\ 30 * 10000 <= row.market_cap
    /\ row.market_cap <= 700 * 10000
    /\ row.owner = TRUE

\* the rows of df that pass, projected, in the order of df
Passing == Project(SelectSeq(df.rows, LAMBDA r : Passes(r, year)))

InResult(row) == \E j \in 1..Len(result.rows) : result.rows[j] = DisplayRow(row)

\* offer 1000, given price and capitalisation (億), owner flag set, listed 3 years ago
ExampleRow(row, price, cap) ==
    /\ row.public_price = 1000
    /\ row.current_price = price
    /\ row.market_cap = cap * 10000
    /\ row.owner = TRUE
    /\ ListedYear(row) = year - 3

\* C1: when the filter has run, the result holds exactly the rows of the
\* enriched table for which all seven predicates hold (year within 10, offer
\* price present, current price present, current < offer strictly, market cap
\* present, 30 <= cap <= 700, owner flag), in the table's order; the row
\* (1000, 800, 100, owner) is kept, with cap 800 or with price 1200 it is not.
C1_ScreeningFilter ==
    pc = "save" =>
        /\ result = Passing
        /\ \A r \in 1..Len(df.rows) :
              /\ ExampleRow(df.rows[r], 800, 100) => InResult(df.rows[r])
              /\ ExampleRow(df.rows[r], 800, 800) => ~InResult(df.rows[r])
              /\ ExampleRow(df.rows[r], 1200, 100) => ~InResult(df.rows[r])
              /\ ExampleRow(df.rows[r], 1000, 100) => ~InResult(df.rows[r])

C1_Witness ==
    /\ pc = "save"
    /\ Len(df.rows) = 1
    /\ ExampleRow(df.rows[1], 800, 100)
    /\ result.rows = <<DisplayRow(df.rows[1])>>

\* C2: a call of get_promising_ipos never raises to its caller, whatever
\* the pages, row pairs and instruments give.
C2_NeverRaises == pc # "raised"

\* C3 as stated: after every call that returned a table and whose file
\* write did not fail (a call that found no listing included), load_cache
\* gives that call's rows and timestamp.
C3_Original ==
    (pc = "returned" /\ saved \notin {"open_fails", "dump_fails"}) =>
        /\ load_cache(file).df = ret.table
        /\ load_cache(file).timestamp = now

\* C3 amended: after a call that found a listing, returned a table and wrote
\* the file, load_cache gives that call's rows and timestamp; a call that
\* found no listing returns the empty table, calls save_cache not at all and
\* leaves the file as it was.
C3_OverwrittenByRunsWithListings ==
    /\ (pc = "returned" /\ saved = "ok") =>
          /\ df.rows # <<>>
          /\ load_cache(file).df = ret.table
          /\ load_cache(file).timestamp = now
          /\ ~load_cache(file).warned
    /\ (pc = "returned" /\ saved = "none") =>
          /\ df.rows = <<>>
          /\ ret.table.rows = <<>>
          /\ file = file0

C3_Witness ==
    /\ pc = "returned"
    /\ saved = "ok"
    /\ file0.kind = "mapping"
    /\ file0.keys = {"data", "timestamp"}
    /\ ret.table.rows # <<>>
    /\ file0.data # ret.table

\* the file holds one complete {data, timestamp} entry
IsEntry(f) == f.kind = "mapping" /\ f.keys = {"data", "timestamp"}

Whole(f) == f.kind = "absent" \/ IsEntry(f)

\* C4: no step turns a file that is absent or holds a complete entry into
\* anything else, and a save that fails leaves what load_cache reads as it was.
C4_NeverPartial ==
    [][/\ Whole(file) => Whole(file')
       /\ (IsEntry(file) /\ saved' \in {"open_fails", "dump_fails"}) =>
             load_cache(file') = load_cache(file)]_vars

\* C5: when save_cache fails, it returns after one warning, and
\* get_promising_ipos returns the filtered table all the same.
C5_SaveFailureAbsorbed ==
    saved \in {"open_fails", "dump_fails"} =>
        /\ pc = "returned"
        /\ ret = [kind |-> "table", table |-> Passing]
        /\ warnings >= 1

C5_Witness ==
    /\ saved = "dump_fails"
    /\ pc = "returned"
    /\ ret.kind = "table"
    /\ ret.table.rows # <<>>

\* the instants the validity of one timestamp is asked at
Instants == 0..(MaxTime + 7 + 1)

\* C6: is_cache_valid(ts) is true exactly when ts is present and
\* now < ts + 7 days; for a fixed ts it is true at every instant before one
\* where it is true, false at ts + 7 days, false at every instant after one
\* where it is false; for an absent ts it is false at every instant.
C6_ValidityMonotonic ==
    /\ cached.called => (valid <=> (cached.timestamp # None /\ now < cached.timestamp + 7))
    /\ \A ts \in {None, file.timestamp, cached.timestamp} :
          IF ts = None
          THEN \A t \in Instants : ~is_cache_valid(ts, t)
          ELSE /\ ~is_cache_valid(ts, ts + 7)
               /\ \A t \in Instants :
                     /\ is_cache_valid(ts, t) <=> t < ts + 7
                     /\ is_cache_valid(ts, t) =>
                           \A u \in Instants : u < t => is_cache_valid(ts, u)
                     /\ ~is_cache_valid(ts, t) =>
                           \A u \in Instants : u > t => ~is_cache_valid(ts, u)

C6_Witness ==
    /\ cached.called
    /\ cached.timestamp # None
    /\ now = cached.timestamp + 7
    /\ valid = FALSE

\* C7: load_cache gives (None, None) whenever the file is missing or holds
\* anything but a {data, timestamp} mapping.
C7_MissOnAnythingElse ==
    (pc = "idle" /\ cached.called /\ ~IsEntry(file)) =>
        (cached.df = NoDF /\ cached.timestamp = None)

\* C8: a call that found no listing returns the empty table with the six
\* display columns in order and has asked no price, no market cap and no
\* officer page; the enrichers only ever run over a table with rows.
C8_ShortCircuit ==
    /\ (pc = "returned" /\ df.rows = <<>>) =>
          /\ ret.kind = "table"
          /\ ret.table.kind = "DataFrame"
          /\ ret.table.rows = <<>>
          /\ ret.table.columns =
                <<"code", "company", "listed_date", "current_price",
                  "public_price", "market_cap">>
          /\ reqs.price = 0
          /\ reqs.cap = 0
          /\ reqs.officer = 0
    /\ pc \in {"prices", "caps", "officers", "filter", "save"} => df.rows # <<>>
    /\ (reqs.price > 0 \/ reqs.cap > 0 \/ reqs.officer > 0) => df.rows # <<>>

C8_Witness ==
    /\ pc = "returned"
    /\ df.rows = <<>>
    /\ reqs.page = 5
    /\ saved = "none"
    /\ ret.table = DataFrame(DISPLAY_COLUMNS, <<>>)

\* C9: a call made while the cache file holds an entry issues no request
\* and returns the rows of that entry.
C9_CacheReturned ==
    (pc # "idle" /\ IsEntry(file0)) =>
        /\ reqs = NoRequests
        /\ pc = "returned" => ret.table = file0.data

RECURSIVE ListedUpTo(_)
\* what the tables of pages 1..n listed, the pages that gave none left out
ListedUpTo(n) ==
    IF n = 0 THEN <<>>
    ELSE ListedUpTo(n - 1) \o (IF n \in got.failed THEN <<>> ELSE got.listed[n])

\* C10: while the pages are fetched, the records collected so far are
\* the concatenation, in page order, of what the tables of the pages that
\* gave one listed; a page that failed has been counted as requested like
\* the others and the loop goes on to the next page.
C10_PageIsolation ==
    pc = "fetch" =>
        /\ records = ListedUpTo(i)
        /\ reqs.page = i
        /\ got.failed \subseteq 1..i
        /\ i <= 5

C10_Witness ==
    /\ pc = "fetch"
    /\ i = 5
    /\ got.failed = {2, 4, 5}
    /\ Len(got.listed[1]) = 1
    /\ Len(got.listed[3]) = 1
    /\ records = got.listed[1] \o got.listed[3]

----------------------------------------------------------------------------
(* Claims on the row parser *)

\* the rows of the table last fetched, its header skipped
Remainder == SubSeq(got.page.trs, 3, Len(got.page.trs))

\* the consecutive, non-overlapping pairs of the remainder
NumPairs == Len(Remainder) \div 2
First(n) == Remainder[2 * n - 1]
Second(n) == Remainder[2 * n]

\* the call has fetched its one page and the page held a table
TableParsed == pc = "list" /\ i = 1 /\ got.page.kind = "table"

\* the stripped text of the n-th cell of a row, empty when the cell is missing
FieldText(tr, n) == IF Len(tr) >= n THEN Strip(tr[n].text) ELSE <<>>

\* a required field of a row pair cannot be parsed: listing date, company
\* name (the text of the link), instrument code or market segment is
\* missing or has empty text
Unparsable(tr1, tr2) ==
    \/ FieldText(tr1, 1) = <<>>
    \/ FieldText(tr1, 2) = <<>>
    \/ (Len(tr1) >= 2 /\ ~tr1[2].anchor)
    \/ FieldText(tr1, 3) = <<>>
    \/ FieldText(tr2, 1) = <<>>

\* C11: every record the listing fetcher retains has a non-empty
\* instrument code, and the records of a table are as many as its row pairs
\* whose four required fields all parse: a pair with a missing field, or
\* with a field whose cell is there but has empty text, gives no record.
C11_RequiredFields ==
    TableParsed =>
        /\ \A j \in 1..Len(records) : records[j].code # <<>>
        /\ Len(records) =
              Cardinality({n \in 1..NumPairs : ~Unparsable(First(n), Second(n))})

\* the part of a price field after its last range delimiter
LastPart(t) ==
    LET at == {j \in 1..Len(t) : t[j] = "~"}
    IN  IF at = {} THEN t
        ELSE SubSeq(t, (CHOOSE j \in at : \A o \in at : o <= j) + 1, Len(t))

\* digits and thousands separators, one digit at least
IsAmount(q) ==
    /\ \A j \in 1..Len(q) : q[j] \in Digits \cup {","}
    /\ \E j \in 1..Len(q) : q[j] \in Digits

AmountOf(q) == IntOf(SelectSeq(q, LAMBDA c : c \in Digits))

\* C14: a row pair whose required cells are there gives a record whatever
\* its price field; for a field "P~Q" with Q of digits and thousands
\* separators the offer price is the integer Q without the separators; for
\* a field whose residue without separators is not all digits (an empty or
\* missing field included) the offer price is null.
C14_OfferPrice ==
    (TableParsed /\ NumPairs = 1 /\ ~Throws(First(1), Second(1))) =>
        LET t == FieldText(Second(1), 4)
            q == LastPart(t)
        IN  /\ Len(records) = 1
            /\ (Contains(t, "~") /\ IsAmount(q)) =>
                  records[1].public_price = AmountOf(q)
            /\ IsAmount(t) => records[1].public_price = AmountOf(t)
            /\ ~IsAmount(q) => records[1].public_price = None

C14_Witness ==
    /\ TableParsed
    /\ NumPairs = 1
    /\ FieldText(Second(1), 4) = <<"9", "0", "0", "~", "1", ",", "0", "0", "0">>
    /\ Len(records) = 1
    /\ records[1].public_price = 1000

RECURSIVE PairsUpTo(_)
\* what the pairs 1..n of the remainder give, one after the other
PairsUpTo(n) ==
    IF n = 0 THEN <<>>
    ELSE PairsUpTo(n - 1) \o PairRecords(First(n), Second(n))

\* C19: the rows after the two header rows are taken in consecutive
\* non-overlapping pairs; the records of the table are what its pairs give,
\* in order, each pair one record at most and a pair that throws none, the
\* pairs after it still counted; a trailing unpaired row changes nothing.
C19_RowPairs ==
    TableParsed =>
        /\ records = PairsUpTo(NumPairs)
        /\ Len(records) <= NumPairs
        /\ \A n \in 1..NumPairs :
              /\ Len(PairRecords(First(n), Second(n))) <= 1
              /\ Throws(First(n), Second(n)) =>
                    PairRecords(First(n), Second(n)) = <<>>
        /\ Len(Remainder) % 2 = 1 =>
              records = PageRecords(PageTable(
                            SubSeq(got.page.trs, 1, Len(got.page.trs) - 1)))

C19_Witness ==
    /\ TableParsed
    /\ Len(Remainder) = 4
    /\ Throws(First(1), Second(1))
    /\ ~Throws(First(2), Second(2))
    /\ Len(records) = 1

----------------------------------------------------------------------------
(* Claims on the enrichers *)

AllDigits(t) == t # <<>> /\ \A j \in 1..Len(t) : t[j] \in Digits

\* the text is "<a>億<b>万"
OkuMan(t) ==
    \E p \in 1..Len(t) :
        /\ t[p] = "oku"
        /\ t[Len(t)] = "man"
        /\ AllDigits(SubSeq(t, 1, p - 1))
        /\ AllDigits(SubSeq(t, p + 1, Len(t) - 1))

\* the text is "<a>億"
OkuOnly(t) == t # <<>> /\ t[Len(t)] = "oku" /\ AllDigits(SubSeq(t, 1, Len(t) - 1))

\* the text starts with "<a>億": the pattern matches it
StartsWithOku(t) == \E p \in 1..Len(t) : t[p] = "oku" /\ AllDigits(SubSeq(t, 1, p - 1))

\* a*10000 + b for "<a>億<b>万", a*10000 for "<a>億", in 万
OkuManValue(t) ==
    LET p == CHOOSE q \in 1..Len(t) : t[q] = "oku"
    IN  IntOf(SubSeq(t, 1, p - 1)) * 10000
            + (IF p = Len(t) THEN 0 ELSE IntOf(SubSeq(t, p + 1, Len(t) - 1)))

\* the last call of get_market_cap has returned and no officer page was asked
CapAsked == reqs.cap > 0 /\ reqs.officer = 0 /\ pc \in {"caps", "officers"}

\* what that call returned
CapGiven == IF pc = "caps" THEN col[reqs.cap] ELSE df.rows[reqs.cap].market_cap

\* the stripped texts of the cells of the page it got, in document order
CapTexts ==
    LET tds == Flatten(got.page.trs) IN [j \in 1..Len(tds) |-> Strip(tds[j].text)]

IsNumber(g) ==
    /\ \E j \in 1..Len(g) : g[j] \in Digits
    /\ \A j \in 1..Len(g) : g[j] \in Digits \cup {"."}
    /\ Cardinality({j \in 1..Len(g) : g[j] = "."}) <= 1

\* the role text holds the director marker and a parenthesized percentage
\* of 40 or more
QualifyingRole(t) ==
    /\ \E j \in 1..Len(t) : t[j] = "director"
    /\ \E p, q \in 1..Len(t) :
          /\ p < q
          /\ q < Len(t)
          /\ t[p] = "("
          /\ t[q] = "%"
          /\ t[q + 1] = ")"
          /\ IsNumber(SubSeq(t, p + 1, q - 1))
          /\ IntOf(Before(SubSeq(t, p + 1, q - 1), ".")) >= 40

\* the last call of is_owner_ceo has returned
OfficerAsked == reqs.officer > 0 /\ pc \in {"officers", "filter"}

OwnerGiven == IF pc = "officers" THEN col[reqs.officer] ELSE df.rows[reqs.officer].owner

\* C12: is_owner_ceo returns true exactly when the fetch succeeded and
\* some row of the page has a second cell with the director marker and a
\* parenthesized percentage of 40 or more, whatever the other rows hold; it
\* never raises.
C12_OwnerCeo ==
    /\ pc # "raised"
    /\ OfficerAsked =>
          (OwnerGiven <=>
              /\ got.page.kind = "page"
              /\ \E r \in 1..Len(got.page.trs) :
                    /\ Len(got.page.trs[r]) >= 2
                    /\ QualifyingRole(Strip(got.page.trs[r][2].text)))

\* the five fields of a listing record
ListingOf(row) ==
    [listed_date |-> row.listed_date, market |-> row.market, code |-> row.code,
     company |-> row.company, public_price |-> row.public_price]

\* C15: while get_current_prices runs, its table has the rows of the
\* caller's table in the same order, the caller's table is as it was given,
\* each row already visited holds the rounded close of its own lookup, or
\* null when that lookup raised or gave an empty history, the rows not yet
\* visited hold null, and every row is visited: the enrichers that follow
\* start only when each row had its one lookup.
C15_PriceIsolation ==
    /\ pc = "prices" =>
          /\ Len(df.rows) = Len(records)
          /\ Len(col) = k
          /\ reqs.price = k
          /\ \A r \in 1..Len(records) :
                /\ DOMAIN records[r] =
                      {"listed_date", "market", "code", "company", "public_price"}
                /\ ListingOf(df.rows[r]) = records[r]
                /\ r > k => df.rows[r].current_price = None
                /\ (r <= k /\ col[r].kind \in {"error", "empty"}) =>
                      df.rows[r].current_price = None
                /\ (r <= k /\ col[r].kind = "close") =>
                      /\ df.rows[r].current_price # None
                      /\ df.rows[r].current_price = Round(col[r].close)
    /\ pc \in {"caps", "officers", "filter", "save"} => reqs.price = Len(df.rows)

C15_Witness ==
    /\ pc = "prices"
    /\ k = 2
    /\ col[1].kind = "close"
    /\ col[2].kind = "error"
    /\ df.rows[1].current_price = 800
    /\ df.rows[2].current_price = None

\* C16: the filter applied again to the rows it kept keeps them all: the
\* result is what a second pass over it gives.
C16_Idempotent ==
    pc = "save" =>
        LET once == Screen(df.rows, year - YEAR_SPAN)
            twice == Screen(once, year - YEAR_SPAN)
        IN  /\ twice = once
            /\ result = Project(twice)

C16_Witness ==
    /\ pc = "save"
    /\ Len(df.rows) = 1
    /\ Len(result.rows) = 1

\* C17: in a run that found a listing, every archive page is fetched
\* before the first price lookup, every price lookup is made before the
\* first market-cap request, every market-cap request before the first
\* officer request, every officer request before the filter; save_cache is
\* called after the filter, before the return and with the table that is
\* returned, and a run that has ended has called it exactly once.
C17_StageOrder ==
    /\ reqs.price > 0 => (reqs.page = 5 /\ pc # "fetch")
    /\ reqs.cap > 0 => reqs.price = Len(df.rows)
    /\ reqs.officer > 0 => reqs.cap = Len(df.rows)
    /\ result # NoDF => reqs.officer = Len(df.rows)
    /\ reqs.save <= 1
    /\ reqs.save = 1 =>
          /\ result # NoDF
          /\ pc = "returned"
          /\ ret.table = result
          /\ saved = "ok" => file.data = ret.table
    /\ pc = "save" => (reqs.save = 0 /\ ret.kind = "none")
    /\ (pc \in {"returned", "raised"} /\ df.rows # <<>>) => reqs.save = 1

\* the archive pages in the order they are requested
PageOrder ==
    <<"index.html", "00-archives-01.html", "00-archives-02.html",
      "00-archives-03.html", "00-archives-04.html">>

\* min(max(years, 0), 5)
PagesExpected ==
    IF years < 0 THEN 0 ELSE IF years > 5 THEN 5 ELSE years

\* C18: a call of get_jpx_ipo_list_multi_year(years) requests the first
\* min(max(years, 0), 5) archive pages, in the fixed order, each once,
\* whether they succeed or fail; by the time the filter is reached each of
\* the three enrichers has made one request per listing row, in row order,
\* whatever the requests gave and whether or not the row is kept.
C18_NoRetries ==
    /\ pc \in {"fetch", "list"} =>
          /\ i <= PagesExpected
          /\ reqs.page = i
          /\ log.page = SubSeq(PageOrder, 1, i)
    /\ pc = "listed" =>
          /\ reqs.page = PagesExpected
          /\ log.page = SubSeq(PageOrder, 1, PagesExpected)
    /\ pc \in {"prices", "caps", "officers", "filter", "save"} =>
          /\ reqs.page = 5
          /\ log.page = PageOrder
    /\ pc \in {"filter", "save", "raised"} \/ (pc = "returned" /\ df.rows # <<>>) =>
          /\ reqs.price = Len(df.rows)
          /\ reqs.cap = Len(df.rows)
          /\ reqs.officer = Len(df.rows)
          /\ log.price = [r \in 1..Len(df.rows) |-> Ticker(df.rows[r].code)]
          /\ log.cap = [r \in 1..Len(df.rows) |-> df.rows[r].code]
          /\ log.officer = [r \in 1..Len(df.rows) |-> df.rows[r].code]

C18_Witness ==
    /\ pc = "listed"
    /\ years = 3
    /\ got.failed = {1, 3}
    /\ log.page = <<"index.html", "00-archives-01.html", "00-archives-02.html">>

\* C20: the cache file changes only when a run of get_promising_ipos
\* saves its result: loading it, asking its validity and showing it leave it
\* as it is, whatever its age; what load_cache gives is the entry's rows and
\* timestamp, and the page shows these rows when asked, expired or not.
C20_StaleServed ==
    [][/\ file' # file => (pc = "save" /\ pc' = "returned")
       /\ (pc' = "idle" /\ cached'.called /\ IsEntry(file')) =>
             /\ cached'.df = file'.data
             /\ cached'.timestamp = file'.timestamp
             /\ valid' <=> (now' < file'.timestamp + 7)
       /\ (pc = "idle" /\ pc' = "idle" /\ session' # session /\ now' = now) =>
             (IsEntry(file) => session' = file.data)]_vars

C20_Witness ==
    /\ pc = "idle"
    /\ IsEntry(file)
    /\ now > file.timestamp + 7
    /\ cached.called
    /\ ~valid
    /\ session = file.data
    /\ session.rows # <<>>

====
